---- MODULE Spec2Model ----
(***************************************************************************)
(* The rank engine of netbill/replicas: the organization_roles table and   *)
(* the four operations of OrgRolesQ that maintain role ranks (Insert,      *)
(* UpdateRoleRank, DeleteAndShiftRanks, UpdateRolesRanks).                 *)
(*                                                                         *)
(* A row of organization_roles is a record [id, org, head, rank]; the      *)
(* display columns (name, description, color) and the timestamps carry no  *)
(* rank logic.  The rows a statement writes (rank and updated_at) are      *)
(* recorded per call in last.written.                                      *)
(***************************************************************************)
EXTENDS Integers, FiniteSets, Sequences, TLC

\* Number of role identities available to organization 1.
MaxRoles == 3

\* Organizations.  Role identities are uuid_generate_v4() values: an identity
\* belongs to one organization for ever (the organization_id of a role cannot
\* change), so each organization draws its identities from its own pool.
Orgs == {1, 2}
IDsOf(o) == IF o = 1 THEN 1..MaxRoles ELSE {MaxRoles + 1}
AllIDs == IDsOf(1) \cup IDsOf(2)

\* Ranks a caller may pass and a row may hold (rank INT CHECK (rank >= 0)).
MaxRank == MaxRoles
Ranks == 0..MaxRank

\* Largest number of entries of the order map passed to UpdateRolesRanks.
MaxAssigned == MaxRoles - 1
Orders ==
  UNION {[D -> Ranks] : D \in {E \in SUBSET AllIDs : Cardinality(E) <= MaxAssigned}}

VARIABLES
  roles,    \* the organization_roles table: a set of rows
  last,     \* the call that has just run: arguments, table before it, result
  txn,      \* the concurrent callers (used by the concurrent specifications)
  inbox,    \* the inbox table: the status of the inbox event of each message key
  profiles, \* the profiles table: a set of rows
  runs,     \* how many times the processor has been invoked, per message key
  sub,      \* the profiles subscription loop started by Profile.Run
  delivery, \* the delivery the loop has just handled
  group,    \* the errgroup that Profile.Run is given
  permissions, \* the permission dictionary: the ids of its rows
  links,    \* the organization_role_permission_links table: a set of rows
  stmt      \* the accessor call that has just run on the store

consumerVars == <<inbox, profiles, runs, sub, delivery, group>>
rankVars == <<roles, last, txn>>
storeVars == <<permissions, links, stmt>>
vars ==
  <<roles, last, txn, inbox, profiles, runs, sub, delivery, group,
    permissions, links, stmt>>

----------------------------------------------------------------------------
\* The profiles consumer before Profile.Run is called

\* Message keys: each message has its own key, from which its inbox event's
\* identity is derived.
Keys == {1, 2, 3, 4}
Accounts == {1}

NoDelivery ==
  [key |-> 0, ok |-> FALSE, createErr |-> FALSE, ran |-> FALSE, status |-> "",
   wrote |-> FALSE, updErr |-> "none", err |-> FALSE, afterFailed |-> FALSE,
   inbox |-> <<>>, profiles |-> <<>>, runs |-> <<>>]

ConsumerInit ==
  /\ inbox = [k \in Keys |-> "none"]
  /\ profiles = {}
  /\ runs = [k \in Keys |-> 0]
  /\ sub = [state |-> "new", err |-> FALSE, n |-> 0, by |-> 0]
  /\ delivery = NoDelivery
  /\ group = [sibling |-> "running", err |-> "nil", returned |-> FALSE]

----------------------------------------------------------------------------
\* The permission dictionary and the role-permission links

MaxPermissions == 2
Permissions == 1..MaxPermissions
\* The rows the migration puts in the dictionary.
SeedPermissions == {1}

OrganizationRolePermissionLink(roleID, permissionID) ==
  [role_id |-> roleID, permission_id |-> permissionID]

NoStatement ==
  [op |-> "none", entity |-> "", matched |-> {}, data |-> {}, pre |-> {},
   ret |-> 0, err |-> FALSE, n |-> 0, once |-> {}]

\* The trigger after an insert of a role: a head role gets a link to every
\* permission of the dictionary (ON CONFLICT DO NOTHING).
ensure_head_role_permissions_absent(lnk, perms, new) == lnk
ensure_head_role_permissions(lnk, perms, new) ==
  IF new.head
    THEN lnk \cup {OrganizationRolePermissionLink(new.id, p) : p \in perms}
    ELSE lnk

\* The links that go with the deleted roles (role_id ... ON DELETE CASCADE).
OnDeleteCascade(lnk, roleIDs) == {l \in lnk : l.role_id \notin roleIDs}

\* The store after the migration and the inserts of the roles of tbl.
StoreInit(tbl) ==
  /\ permissions = SeedPermissions
  /\ links = {OrganizationRolePermissionLink(r.id, p) :
                r \in {h \in tbl : h.head}, p \in SeedPermissions}
  /\ stmt = NoStatement

----------------------------------------------------------------------------
\* The table

OrganizationRole(id, o, head, rank) ==
  [id |-> id, org |-> o, head |-> head, rank |-> rank]

OrgRows(tbl, o) == {r \in tbl : r.org = o}
RowsByID(tbl, id) == {r \in tbl : r.id = id}
IDs(S) == {r.id : r \in S}
RankSet(S) == {r.rank : r \in S}
RankOf(tbl, id) == (CHOOSE r \in tbl : r.id = id).rank

\* The dense-rank invariant of one organization: ranks are exactly 0..n-1.
Dense(tbl, o) ==
  LET S == OrgRows(tbl, o)
  IN  /\ RankSet(S) = 0..(Cardinality(S) - 1)
      /\ \A r1, r2 \in S : r1.rank = r2.rank => r1.id = r2.id

\* A table without the unique index.
OneHeadViolated_absent(tbl, o, head) == FALSE

\* roles_one_head_per_organization: unique index on (organization_id) WHERE head.
OneHeadViolated(tbl, o, head) ==
  head /\ \E r \in OrgRows(tbl, o) : r.head

\* A table without the trigger.
prevent_delete_head_role_absent(row) == FALSE

\* prevent_delete_head_role: BEFORE DELETE trigger raising an exception.
prevent_delete_head_role(row) == row.head

\* ORDER BY r.rank ASC, r.id ASC, as a sequence of rows.
Before(a, b) == a.rank < b.rank \/ (a.rank = b.rank /\ a.id < b.id)
OrderByRoleRank(S) ==
  [i \in 1..Cardinality(S) |->
     CHOOSE r \in S : Cardinality({x \in S : Before(x, r)}) = i - 1]

SeqRange(s) == {s[i] : i \in 1..Len(s)}

----------------------------------------------------------------------------
\* The statements

\* A bump without the filter on organization_id.
sqlInsertAtRank_allOrganizations(tbl, o, rank, head, newid) ==
  {IF r.rank >= rank THEN [r EXCEPT !.rank = @ + 1] ELSE r : r \in tbl}
    \cup {[id |-> newid, org |-> o, head |-> head, rank |-> rank]}

\* A bump that leaves the row at the insertion rank in place (rank > $2).
sqlInsertAtRank_bumpAbove(tbl, o, rank, head, newid) ==
  {IF r.org = o /\ r.rank > rank THEN [r EXCEPT !.rank = @ + 1] ELSE r : r \in tbl}
    \cup {[id |-> newid, org |-> o, head |-> head, rank |-> rank]}

\* sqlInsertAtRank: bump every row of the organization with rank >= $2, insert
\* the new row at $2.  Both parts of the statement see the same snapshot.
sqlInsertAtRank(tbl, o, rank, head, newid) ==
  {IF r.org = o /\ r.rank >= rank THEN [r EXCEPT !.rank = @ + 1] ELSE r : r \in tbl}
    \cup {OrganizationRole(newid, o, head, rank)}

BumpedBy_sqlInsertAtRank(tbl, o, rank) ==
  {r.id : r \in {x \in tbl : x.org = o /\ x.rank >= rank}}

\* A delete that does not shift the rows above the deleted rank.
sqlq_noShift(tbl, roleID) == {r \in tbl : r.id # roleID}

\* The shift of sqlq applied without its delete.
sqlq_shiftOnly(tbl, roleID) ==
  LET del == RowsByID(tbl, roleID)
  IN  {IF \E d \in del : r.id # d.id /\ r.org = d.org /\ r.rank > d.rank
         THEN [r EXCEPT !.rank = @ - 1] ELSE r : r \in tbl}

\* sqlq of DeleteAndShiftRanks: delete the row, shift down every row of the same
\* organization whose rank is greater than the deleted rank.
sqlq(tbl, roleID) ==
  LET del == RowsByID(tbl, roleID)
  IN  {IF \E d \in del : r.org = d.org /\ r.rank > d.rank
         THEN [r EXCEPT !.rank = @ - 1] ELSE r : r \in tbl \ del}

ShiftedBy_sqlq(tbl, roleID) ==
  LET del == RowsByID(tbl, roleID)
  IN  {r.id : r \in {x \in tbl \ del : \E d \in del : x.org = d.org /\ x.rank > d.rank}}

\* sqlGet of UpdateRoleRank: the organization and rank of the role.
sqlGet(tbl, roleID) == RowsByID(tbl, roleID)

\* A move whose upward shift misses the row at the destination (rank > $2).
sqlMove_missDestination(tbl, roleID, newRank, oldRank, aggID) ==
  {IF r.org # aggID THEN r
   ELSE [r EXCEPT !.rank =
           CASE r.id = roleID -> newRank
             [] newRank < oldRank /\ r.rank > newRank /\ r.rank < oldRank -> r.rank + 1
             [] newRank > oldRank /\ r.rank <= newRank /\ r.rank > oldRank -> r.rank - 1
             [] OTHER -> r.rank]
   : r \in tbl}

\* sqlMove of UpdateRoleRank: $1 = roleID, $2 = newRank, $3 = oldRank, $4 = aggID.
sqlMove(tbl, roleID, newRank, oldRank, aggID) ==
  {IF r.org # aggID THEN r
   ELSE [r EXCEPT !.rank =
           CASE r.id = roleID -> newRank
             [] newRank < oldRank /\ r.rank >= newRank /\ r.rank < oldRank -> r.rank + 1
             [] newRank > oldRank /\ r.rank <= newRank /\ r.rank > oldRank -> r.rank - 1
             [] OTHER -> r.rank]
   : r \in tbl}

\* sqlUpdate of UpdateRolesRanks: set the rank of every row whose id is in the
\* changed list (newRanks maps a changed id to its new rank).
sqlUpdate(tbl, changed, newRanks, organizationID) ==
  {IF r.id \in changed /\ r.org = organizationID
     THEN [r EXCEPT !.rank = newRanks[r.id]] ELSE r : r \in tbl}

----------------------------------------------------------------------------
\* UpdateRolesRanks, the part computed in Go

\* A validation loop without the idToRole membership test.
OrderInvalid_noMembership(rolesSeq, order) ==
  \/ \E id \in DOMAIN order : order[id] >= Len(rolesSeq)
  \/ \E a, b \in DOMAIN order : a # b /\ order[a] = order[b]

\* The validation loop over the order map: any entry out of [0, n-1], any
\* entry naming a role that is not among the organization's roles, or two
\* entries with the same rank, ends the call with an error (which of several
\* errors is reported depends on the map's iteration order).
OrderInvalid(rolesSeq, order) ==
  LET n == Len(rolesSeq)
      idToRole == IDs(SeqRange(rolesSeq))
  IN  \/ \E id \in DOMAIN order : order[id] >= n
      \/ \E id \in DOMAIN order : id \notin idToRole
      \/ \E a, b \in DOMAIN order : a # b /\ order[a] = order[b]

\* A rest list collected in descending rank order.
RestOf_descending(rolesSeq, order) ==
  LET n == Len(rolesSeq)
  IN  SelectSeq([i \in 1..n |-> rolesSeq[n + 1 - i].id],
                LAMBDA id : id \notin DOMAIN order)

\* rest: the ids of the roles the order map does not mention, in rank order.
RestOf(rolesSeq, order) ==
  SelectSeq([i \in 1..Len(rolesSeq) |-> rolesSeq[i].id],
            LAMBDA id : id \notin DOMAIN order)

\* target: position i (0-based rank i) holds the id assigned to rank i, or the
\* next id of rest when no id is assigned to it.  Indexed 0..n-1.
Target(rolesSeq, order) ==
  LET n == Len(rolesSeq)
      rest == RestOf(rolesSeq, order)
      filled(i) == \E id \in DOMAIN order : order[id] = i
      unfilledBefore(i) == Cardinality({k \in 0..(i - 1) : ~filled(k)})
  IN  [i \in 0..(n - 1) |->
         IF filled(i) THEN CHOOSE id \in DOMAIN order : order[id] = i
         ELSE rest[unfilledBefore(i) + 1]]

\* A diff that finds no role changed.
Changed_none(rolesSeq, target) == {}

\* A diff that takes every role as changed.
Changed_all(rolesSeq, target) == {target[i] : i \in DOMAIN target}

\* changed: the ids whose target position differs from their position in the
\* rank-ordered list that was read.
Changed(rolesSeq, target) ==
  {target[i] : i \in {k \in DOMAIN target : rolesSeq[k + 1].id # target[k]}}

NewRanks(target, changed) ==
  [id \in changed |-> CHOOSE i \in DOMAIN target : target[i] = id]

----------------------------------------------------------------------------
\* Calls, one after another

NoCall ==
  [op |-> "none", org |-> 0, id |-> 0, rank |-> 0, head |-> FALSE, order |-> <<>>,
   pre |-> {}, err |-> FALSE, ret |-> <<>>, written |-> {}]

Idle == last.op = "none"

Init ==
  /\ roles = {}
  /\ last = NoCall
  /\ txn = <<>>
  /\ ConsumerInit
  /\ StoreInit({})

\* OrgRolesQ.Insert
Insert(o, rank, head) ==
  /\ Idle
  /\ \E newid \in IDsOf(o) \ IDs(roles) :
       LET post == sqlInsertAtRank(roles, o, rank, head, newid)
           call == [NoCall EXCEPT !.op = "Insert", !.org = o, !.rank = rank,
                                  !.head = head, !.pre = roles]
       IN  /\ \A r \in post : r.rank <= MaxRank
           /\ IF OneHeadViolated(roles, o, head)
                THEN /\ roles' = roles
                     /\ links' = links
                     /\ last' = [call EXCEPT !.err = TRUE]
                ELSE /\ roles' = post
                     /\ links' = ensure_head_role_permissions(links, permissions,
                                    OrganizationRole(newid, o, head, rank))
                     /\ last' = [call EXCEPT
                                   !.id = newid,
                                   !.ret = <<OrganizationRole(newid, o, head, rank)>>,
                                   !.written = BumpedBy_sqlInsertAtRank(roles, o, rank)
                                                 \cup {newid}]
  /\ UNCHANGED <<txn, consumerVars, permissions, stmt>>

\* OrgRolesQ.DeleteAndShiftRanks
DeleteAndShiftRanks(roleID) ==
  /\ Idle
  /\ LET del == RowsByID(roles, roleID)
         call == [NoCall EXCEPT !.op = "DeleteAndShiftRanks", !.id = roleID,
                                !.pre = roles]
     IN  IF \E d \in del : prevent_delete_head_role(d)
           THEN /\ roles' = roles
                /\ links' = links
                /\ last' = [call EXCEPT !.err = TRUE]
           ELSE /\ roles' = sqlq(roles, roleID)
                /\ links' = OnDeleteCascade(links, IDs(del))
                /\ last' = [call EXCEPT
                              !.written = IDs(del) \cup ShiftedBy_sqlq(roles, roleID)]
  /\ UNCHANGED <<txn, consumerVars, permissions, stmt>>

\* OrgRolesQ.Get over the rows a filter selects: LIMIT 1, and the zero value
\* with a nil error when no row matches.
ZeroRole == [id |-> 0, org |-> 0, head |-> FALSE, rank |-> 0]
Get(S) == IF S = {} THEN ZeroRole ELSE CHOOSE r \in S : TRUE

\* A move without the early return.
RankDiffers_always(oldRank, newRank) == TRUE

\* if oldRank == int(newRank): the early return that skips sqlMove.
RankDiffers(oldRank, newRank) == oldRank # newRank

\* OrgRolesQ.UpdateRoleRank.  sqlGet names the relation "roles" where every other
\* statement names organization_roles; the model reads the one roles table.
UpdateRoleRank(roleID, newRank) ==
  /\ Idle
  /\ LET got == sqlGet(roles, roleID)
         call == [NoCall EXCEPT !.op = "UpdateRoleRank", !.id = roleID,
                                !.rank = newRank, !.pre = roles]
     IN  IF got = {}
           THEN /\ roles' = roles
                /\ last' = [call EXCEPT !.err = TRUE]
           ELSE LET row == CHOOSE r \in got : TRUE
                    oldRank == row.rank
                    aggID == row.org
                    post == sqlMove(roles, roleID, newRank, oldRank, aggID)
                IN  IF ~RankDiffers(oldRank, newRank)
                      THEN /\ roles' = roles
                           /\ last' = [call EXCEPT
                                         !.org = aggID,
                                         !.ret = <<Get(RowsByID(roles, roleID))>>]
                      ELSE /\ roles' = post
                           /\ last' = [call EXCEPT
                                         !.org = aggID,
                                         !.ret = <<CHOOSE r \in post : r.id = roleID>>,
                                         !.written = IDs(OrgRows(roles, aggID))]
  /\ UNCHANGED <<txn, consumerVars, storeVars>>

\* An UpdateRolesRanks without the check for an empty organization.
NoRoles_never(rolesSeq) == FALSE

\* UpdateRolesRanks: len(roles) == 0, "no roles in organization".
NoRoles(rolesSeq) == Len(rolesSeq) = 0

\* OrgRolesQ.UpdateRolesRanks
UpdateRolesRanks(organizationID, order) ==
  /\ Idle
  /\ LET rolesSeq == OrderByRoleRank(OrgRows(roles, organizationID))
         call == [NoCall EXCEPT !.op = "UpdateRolesRanks", !.org = organizationID,
                                !.order = order, !.pre = roles]
     IN  IF NoRoles(rolesSeq) \/ OrderInvalid(rolesSeq, order)
           THEN /\ roles' = roles
                /\ last' = [call EXCEPT !.err = TRUE]
           ELSE LET target == Target(rolesSeq, order)
                    changed == Changed(rolesSeq, target)
                    newRanks == NewRanks(target, changed)
                    post == sqlUpdate(roles, changed, newRanks, organizationID)
                IN  IF changed = {}
                      THEN /\ roles' = roles
                           /\ last' = [call EXCEPT !.ret = rolesSeq]
                      ELSE /\ roles' = post
                           /\ last' = [call EXCEPT
                                         !.ret = OrderByRoleRank(
                                                   {r \in post : r.id \in changed}),
                                         !.written = changed]
  /\ UNCHANGED <<txn, consumerVars, storeVars>>

\* The caller takes the result; the next call can start.
Return ==
  /\ ~Idle
  /\ last' = NoCall
  /\ stmt' = NoStatement
  /\ UNCHANGED <<roles, txn, consumerVars, permissions, links>>

Next ==
  \/ Idle /\ \E o \in Orgs, rank \in Ranks, head \in BOOLEAN : Insert(o, rank, head)
  \/ Idle /\ \E roleID \in AllIDs : DeleteAndShiftRanks(roleID)
  \/ Idle /\ \E roleID \in AllIDs, newRank \in Ranks : UpdateRoleRank(roleID, newRank)
  \/ Idle /\ \E o \in Orgs, order \in Orders : UpdateRolesRanks(o, order)
  \/ Return

Spec == Init /\ [][Next]_vars

\* The same calls from callers that keep to the rank range: Insert with a rank
\* in [0, n], UpdateRoleRank of an existing role with a rank in [0, n-1].
Count(tbl, o) == Cardinality(OrgRows(tbl, o))

InsertInRange(o, rank) == rank <= Count(roles, o)

MoveInRange(roleID, newRank) ==
  \A r \in RowsByID(roles, roleID) : newRank < Count(roles, r.org)

NextInRange ==
  \/ Idle /\ \E o \in Orgs, rank \in Ranks, head \in BOOLEAN :
               InsertInRange(o, rank) /\ Insert(o, rank, head)
  \/ Idle /\ \E roleID \in AllIDs : DeleteAndShiftRanks(roleID)
  \/ Idle /\ \E roleID \in AllIDs, newRank \in Ranks :
               MoveInRange(roleID, newRank) /\ UpdateRoleRank(roleID, newRank)
  \/ Idle /\ \E o \in Orgs, order \in Orders : UpdateRolesRanks(o, order)
  \/ Return

SpecInRange == Init /\ [][NextInRange]_vars

----------------------------------------------------------------------------
\* Concurrent callers.  No call takes a lock or opens a transaction of its own,
\* and no isolation level is set: each statement runs by itself against the
\* table as it is when the statement runs.  UpdateRolesRanks and UpdateRoleRank
\* are two statements each, a read and a write computed from what was read.

Procs == {1, 2}

NoTxn ==
  [pc |-> "idle", op |-> "none", org |-> 0, id |-> 0, rank |-> 0, order |-> <<>>,
   seen |-> <<>>, err |-> FALSE]

\* A dense organization 1 of n roles (role 1 the head role) and the one role
\* of organization 2.
DenseTable(n) ==
  {OrganizationRole(i, 1, i = 1, i - 1) : i \in 1..n}
    \cup {OrganizationRole(MaxRoles + 1, 2, TRUE, 0)}

InitConc ==
  /\ roles \in {DenseTable(n) : n \in 1..MaxRoles}
  /\ last = NoCall
  /\ txn = [p \in Procs |-> NoTxn]
  /\ ConsumerInit
  /\ StoreInit(roles)

\* UpdateRolesRanks up to the write: the Select, the validation and the diff.
ReadRoles(p, organizationID, order) ==
  /\ txn[p].pc = "idle"
  /\ LET rolesSeq == OrderByRoleRank(OrgRows(roles, organizationID))
         call == [NoTxn EXCEPT !.op = "UpdateRolesRanks", !.org = organizationID,
                               !.order = order, !.seen = rolesSeq]
     IN  txn' = [txn EXCEPT ![p] =
           IF NoRoles(rolesSeq) \/ OrderInvalid(rolesSeq, order)
             THEN [call EXCEPT !.pc = "done", !.err = TRUE]
           ELSE IF Changed(rolesSeq, Target(rolesSeq, order)) = {}
             THEN [call EXCEPT !.pc = "done"]
           ELSE [call EXCEPT !.pc = "write"]]
  /\ UNCHANGED <<roles, last, consumerVars, storeVars>>

\* UpdateRolesRanks, sqlUpdate: the ranks computed from the roles read before.
WriteRanks(p) ==
  /\ txn[p].pc = "write"
  /\ txn[p].op = "UpdateRolesRanks"
  /\ LET target == Target(txn[p].seen, txn[p].order)
         changed == Changed(txn[p].seen, target)
     IN  roles' = sqlUpdate(roles, changed, NewRanks(target, changed), txn[p].org)
  /\ txn' = [txn EXCEPT ![p].pc = "done"]
  /\ UNCHANGED <<last, consumerVars, storeVars>>

\* UpdateRoleRank up to the write: sqlGet and the early return.
ReadRank(p, roleID, newRank) ==
  /\ txn[p].pc = "idle"
  /\ LET got == sqlGet(roles, roleID)
         call == [NoTxn EXCEPT !.op = "UpdateRoleRank", !.id = roleID, !.rank = newRank]
     IN  txn' = [txn EXCEPT ![p] =
           IF got = {}
             THEN [call EXCEPT !.pc = "done", !.err = TRUE]
           ELSE LET row == CHOOSE r \in got : TRUE
                    read == [call EXCEPT !.org = row.org, !.seen = <<row>>]
                IN  IF ~RankDiffers(row.rank, newRank)
                      THEN [read EXCEPT !.pc = "done"]
                      ELSE [read EXCEPT !.pc = "write"]]
  /\ UNCHANGED <<roles, last, consumerVars, storeVars>>

\* UpdateRoleRank, sqlMove: $3 is the rank read before.  The statement selects
\* its result row FROM upd WHERE id = $1: no such row is sql.ErrNoRows.
MoveRank(p) ==
  /\ txn[p].pc = "write"
  /\ txn[p].op = "UpdateRoleRank"
  /\ roles' = sqlMove(roles, txn[p].id, txn[p].rank, txn[p].seen[1].rank, txn[p].org)
  /\ txn' = [txn EXCEPT ![p].pc = "done",
                        ![p].err = (RowsByID(OrgRows(roles, txn[p].org), txn[p].id) = {})]
  /\ UNCHANGED <<last, consumerVars, storeVars>>

NextConc ==
  \/ \E p \in Procs, o \in Orgs, order \in Orders : ReadRoles(p, o, order)
  \/ \E p \in Procs : WriteRanks(p)
  \/ \E p \in Procs, roleID \in AllIDs, newRank \in Ranks :
       MoveInRange(roleID, newRank) /\ ReadRank(p, roleID, newRank)
  \/ \E p \in Procs : MoveRank(p)

SpecConc == InitConc /\ [][NextConc]_vars

\* OrgRolesQ.Insert by a concurrent caller: sqlInsertAtRank is its one statement.
InsertStmt(p, o, rank, head) ==
  /\ txn[p].pc = "idle"
  /\ \E newid \in IDsOf(o) \ IDs(roles) :
       LET post == sqlInsertAtRank(roles, o, rank, head, newid)
           call == [NoTxn EXCEPT !.pc = "done", !.op = "Insert", !.org = o,
                                 !.id = newid, !.rank = rank]
       IN  /\ \A r \in post : r.rank <= MaxRank
           /\ IF OneHeadViolated(roles, o, head)
                THEN /\ roles' = roles
                     /\ links' = links
                     /\ txn' = [txn EXCEPT ![p] = [call EXCEPT !.err = TRUE]]
                ELSE /\ roles' = post
                     /\ links' = ensure_head_role_permissions(links, permissions,
                                    OrganizationRole(newid, o, head, rank))
                     /\ txn' = [txn EXCEPT ![p] = call]
  /\ UNCHANGED <<last, consumerVars, permissions, stmt>>

\* OrgRolesQ.DeleteAndShiftRanks by a concurrent caller: sqlq is its one
\* statement.
DeleteStmt(p, roleID) ==
  /\ txn[p].pc = "idle"
  /\ LET del == RowsByID(roles, roleID)
         call == [NoTxn EXCEPT !.pc = "done", !.op = "DeleteAndShiftRanks",
                               !.id = roleID]
     IN  IF \E d \in del : prevent_delete_head_role(d)
           THEN /\ roles' = roles
                /\ links' = links
                /\ txn' = [txn EXCEPT ![p] = [call EXCEPT !.err = TRUE]]
           ELSE /\ roles' = sqlq(roles, roleID)
                /\ links' = OnDeleteCascade(links, IDs(del))
                /\ txn' = [txn EXCEPT ![p] = call]
  /\ UNCHANGED <<last, consumerVars, permissions, stmt>>

\* UpdateRoleRank with an Insert, a DeleteAndShiftRanks or another
\* UpdateRoleRank of a second caller between or around its two statements.
NextMove ==
  \/ \E p \in Procs, roleID \in AllIDs, newRank \in Ranks :
       MoveInRange(roleID, newRank) /\ ReadRank(p, roleID, newRank)
  \/ \E p \in Procs : MoveRank(p)
  \/ \E p \in Procs, o \in Orgs, rank \in Ranks, head \in BOOLEAN :
       InsertInRange(o, rank) /\ InsertStmt(p, o, rank, head)
  \/ \E p \in Procs, roleID \in AllIDs : DeleteStmt(p, roleID)

SpecMove == InitConc /\ [][NextMove]_vars

\* OrgRolesQ.Select of one organization's roles by a reader, in rank order.
SelectStmt(organizationID) ==
  /\ Idle
  /\ last' = [NoCall EXCEPT !.op = "Select", !.org = organizationID, !.pre = roles,
                            !.ret = OrderByRoleRank(OrgRows(roles, organizationID))]
  /\ UNCHANGED <<roles, txn, consumerVars, storeVars>>

\* Insert and DeleteAndShiftRanks of two callers, and a reader that selects
\* before, between or after their statements.
NextStmt ==
  \/ \E p \in Procs, o \in Orgs, rank \in Ranks, head \in BOOLEAN :
       InsertInRange(o, rank) /\ InsertStmt(p, o, rank, head)
  \/ \E p \in Procs, roleID \in AllIDs : DeleteStmt(p, roleID)
  \/ \E o \in Orgs : SelectStmt(o)
  \/ Return

SpecStmt == InitConc /\ [][NextStmt]_vars

----------------------------------------------------------------------------
\* The profiles consumer: Profile.Run, its handler resolver and the handler
\* Profile.ProfileUpdated.  The inbox (CreateInboxEvent,
\* UpdateInboxEventStatus), the processor, the subscriber's loop and the
\* transaction primitive are collaborators the consumer is given; they behave
\* here as the specification describes them.

\* Largest number of deliveries the subscription loop handles.
MaxDeliveries == 3

ProfileUpdatedEvent == "profile.updated"
MemberRoleAddedEvent == "member_role.added"

\* kafka.Message: its key, its event_type header (which may be absent) and the
\* profile its payload carries.
Message(key, typed, et, account, username) ==
  [key |-> key, typed |-> typed, event_type |-> et, account |-> account,
   username |-> username]

\* Two profile.updated messages for one account, a message of an event type
\* the profiles consumer has no handler for, a message without the header.
Messages ==
  {Message(1, TRUE, ProfileUpdatedEvent, 1, 1),
   Message(2, TRUE, ProfileUpdatedEvent, 1, 2),
   Message(3, TRUE, MemberRoleAddedEvent, 1, 1),
   Message(4, FALSE, "", 1, 2)}

\* subscriber.Header(m, "event_type")
Header(m) == [value |-> m.event_type, ok |-> m.typed]

\* A resolver that hands every message carrying the header to ProfileUpdated.
Resolve_anyType(m) ==
  IF ~Header(m).ok
    THEN [handler |-> "nil", ok |-> FALSE]
    ELSE [handler |-> "ProfileUpdated", ok |-> TRUE]

\* The handler resolver passed to Consume.
Resolve(m) ==
  LET et == Header(m)
  IN  IF ~et.ok
        THEN [handler |-> "nil", ok |-> FALSE]
      ELSE IF et.value = ProfileUpdatedEvent
        THEN [handler |-> "ProfileUpdated", ok |-> TRUE]
      ELSE [handler |-> "nil", ok |-> FALSE]

Terminal == {"processed", "failed"}

\* The identity of a message's inbox event, derived from the message.
EventID(m) == m.key

\* Inbox.CreateInboxEvent: insert a pending row, or resolve to the row that
\* already has the identity.
CreateInboxEvent(tbl, m) ==
  IF tbl[EventID(m)] = "none" THEN [tbl EXCEPT ![EventID(m)] = "pending"] ELSE tbl

\* Inbox.UpdateInboxEventStatus
UpdateInboxEventStatus(tbl, id, status) == [tbl EXCEPT ![id] = status]

\* How UpdateInboxEventStatus can end: without error; with an error that
\* leaves the transaction usable; with a failed statement, after which the
\* store refuses the commit.
UpdateOutcomes == {"none", "rejected", "aborted"}

\* The profiles table: account_id is the primary key, username is UNIQUE;
\* pseudonym 0 is NULL.
AccountIDs == {1, 2}
Usernames == {1, 2, 3}
Pseudonyms == {0, 1}

Profile(account, username, official, pseudonym, createdAt, updatedAt) ==
  [account_id |-> account, username |-> username, official |-> official,
   pseudonym |-> pseudonym, created_at |-> createdAt, updated_at |-> updatedAt]

ProfileUpsertInput(account, username, official, pseudonym) ==
  [account_id |-> account, username |-> username, official |-> official,
   pseudonym |-> pseudonym]

ProfilesByAccountID(tbl, account) == {r \in tbl : r.account_id = account}

\* The username of the account's row, 0 when the account has no row.
UsernameOf(tbl, account) ==
  IF ProfilesByAccountID(tbl, account) = {}
    THEN 0
    ELSE (CHOOSE r \in ProfilesByAccountID(tbl, account) : TRUE).username

\* The UNIQUE constraint on username: another account's row has it.
UsernameTaken(tbl, data) ==
  \E r \in tbl : r.username = data.username /\ r.account_id # data.account_id

\* An upsert whose conflict clause is DO NOTHING.
Upsert_doNothing(tbl, data, now) ==
  IF UsernameTaken(tbl, data) THEN [tbl |-> tbl, err |-> TRUE]
  ELSE IF ProfilesByAccountID(tbl, data.account_id) # {}
    THEN [tbl |-> tbl, err |-> FALSE]
    ELSE [tbl |-> tbl \cup {Profile(data.account_id, data.username, data.official,
                                    data.pseudonym, now, now)},
          err |-> FALSE]

\* ProfilesQ.Upsert: INSERT ... ON CONFLICT (account_id) DO UPDATE SET username,
\* official, pseudonym, updated_at.  created_at is kept on conflict and now()
\* on insert; a username another account holds fails the statement.
Upsert(tbl, data, now) ==
  LET old == ProfilesByAccountID(tbl, data.account_id)
      createdAt == IF old = {} THEN now ELSE (CHOOSE r \in old : TRUE).created_at
  IN  IF UsernameTaken(tbl, data)
        THEN [tbl |-> tbl, err |-> TRUE]
        ELSE [tbl |-> (tbl \ old)
                        \cup {Profile(data.account_id, data.username, data.official,
                                      data.pseudonym, createdAt, now)},
              err |-> FALSE]

\* What one invocation of the processor can do: the status it returns and
\* whether it wrote the profile before returning.
ProcessorOutcomes ==
  {[status |-> "processed", wrote |-> TRUE],
   [status |-> "failed", wrote |-> FALSE],
   [status |-> "failed", wrote |-> TRUE]}

\* processor.ProfileUpdated on the transaction's profiles table; now() of the
\* write is later at each delivery.
processor_ProfileUpdated(tbl, m, out) ==
  IF out.wrote
    THEN Upsert(tbl, ProfileUpsertInput(m.account, m.username, FALSE, 0),
                sub.n + 1).tbl
    ELSE tbl

\* A closure that returns an error when the processor reports a failure.
ProfileUpdated_failureIsError(m, createErr, out, updErr) ==
  [inbox |-> UpdateInboxEventStatus(CreateInboxEvent(inbox, m), EventID(m), out.status),
   profiles |-> processor_ProfileUpdated(profiles, m, out),
   ran |-> ~createErr, aborted |-> FALSE,
   err |-> createErr \/ out.status = "failed"]

\* A closure that logs the error of CreateInboxEvent and goes on.
ProfileUpdated_ignoreCreateError(m, createErr, out, updErr) ==
  [inbox |-> IF updErr = "none"
               THEN UpdateInboxEventStatus(CreateInboxEvent(inbox, m), EventID(m),
                                           out.status)
               ELSE CreateInboxEvent(inbox, m),
   profiles |-> processor_ProfileUpdated(profiles, m, out),
   ran |-> TRUE, aborted |-> updErr = "aborted", err |-> FALSE]

\* The closure ProfileUpdated passes to Transaction: the tables as the
\* transaction has them when the closure returns, and the closure's error.
\* A failed UpdateInboxEventStatus is logged and the closure returns nil.
ProfileUpdated(m, createErr, out, updErr) ==
  LET eventInBox == CreateInboxEvent(inbox, m)
  IN  IF createErr
        THEN [inbox |-> inbox, profiles |-> profiles, ran |-> FALSE,
              aborted |-> FALSE, err |-> TRUE]
        ELSE [inbox |-> IF updErr = "none"
                          THEN UpdateInboxEventStatus(eventInBox, EventID(m), out.status)
                          ELSE eventInBox,
              profiles |-> processor_ProfileUpdated(profiles, m, out),
              ran |-> TRUE,
              aborted |-> updErr = "aborted",
              err |-> FALSE]

\* Service.Transaction: commit when the closure returns nil, roll back when
\* it returns an error or the commit is refused.
Transaction(fn) ==
  IF fn.err \/ fn.aborted
    THEN [committed |-> FALSE, err |-> TRUE]
    ELSE [committed |-> TRUE, err |-> FALSE]

\* A task function that logs the error and returns nil.
TaskReturn_nil(g, task, err) == g

\* The function given to g.Go returns err: the group keeps the first non-nil
\* error of its tasks.
TaskReturn(g, task, err) ==
  [g EXCEPT !.err = IF err /\ @ = "nil" THEN task ELSE @]

\* Profile.Run up to g.Wait: g.Go starts the subscription loop.
Run ==
  /\ sub.state = "new"
  /\ sub' = [sub EXCEPT !.state = "running"]
  /\ UNCHANGED <<rankVars, storeVars, inbox, profiles, runs, delivery, group>>

\* The loop takes one message: the resolver, then the handler if there is
\* one.  A message without handler is skipped; an error of the handler ends
\* the loop, and the task function returns it.
Deliver(m, createErr, out, updErr) ==
  /\ sub.state = "running"
  /\ sub.n < MaxDeliveries
  /\ LET h == Resolve(m)
         fn == ProfileUpdated(m, createErr, out, updErr)
         tx == Transaction(fn)
         seen == [NoDelivery EXCEPT
                    !.key = m.key, !.inbox = inbox, !.profiles = profiles,
                    !.runs = runs,
                    !.afterFailed = delivery.ran /\ delivery.status = "failed"]
     IN  IF ~h.ok
           THEN /\ delivery' = seen
                /\ sub' = [sub EXCEPT !.n = @ + 1]
                /\ UNCHANGED <<inbox, profiles, runs, group>>
           ELSE /\ delivery' = [seen EXCEPT
                                  !.ok = TRUE,
                                  !.createErr = createErr,
                                  !.ran = fn.ran,
                                  !.status = IF fn.ran THEN out.status ELSE "",
                                  !.wrote = fn.ran /\ out.wrote,
                                  !.updErr = IF fn.ran THEN updErr ELSE "none",
                                  !.err = tx.err]
                /\ inbox' = IF tx.committed THEN fn.inbox ELSE inbox
                /\ profiles' = IF tx.committed THEN fn.profiles ELSE profiles
                /\ runs' = IF tx.committed /\ fn.ran
                             THEN [runs EXCEPT ![m.key] = @ + 1] ELSE runs
                /\ IF tx.err
                     THEN /\ sub' = [state |-> "stopped", err |-> TRUE, n |-> sub.n + 1,
                                   by |-> m.key]
                          /\ group' = TaskReturn(group, "profiles", TRUE)
                     ELSE /\ sub' = [sub EXCEPT !.n = @ + 1]
                          /\ group' = group
  /\ UNCHANGED <<rankVars, storeVars>>

\* Consume returns by itself: with an error of the broker, or with nil once
\* its context is done.  The task function returns what Consume returned.
ConsumeExit(err) ==
  /\ sub.state = "running"
  /\ sub' = [sub EXCEPT !.state = "stopped", !.err = err]
  /\ group' = TaskReturn(group, "profiles", err)
  /\ UNCHANGED <<rankVars, storeVars, inbox, profiles, runs, delivery>>

\* Another task of the same group returns.
SiblingReturn(err) ==
  /\ group.sibling = "running"
  /\ group' = [TaskReturn(group, "sibling", err) EXCEPT !.sibling = "exited"]
  /\ UNCHANGED <<rankVars, storeVars, inbox, profiles, runs, sub, delivery>>

\* g.Wait in Profile.Run returns once every task of the group has returned;
\* Run discards the error and returns.
RunReturn ==
  /\ sub.state = "stopped"
  /\ group.sibling = "exited"
  /\ ~group.returned
  /\ group' = [group EXCEPT !.returned = TRUE]
  /\ UNCHANGED <<rankVars, storeVars, inbox, profiles, runs, sub, delivery>>

NextConsumer ==
  \/ Run
  \/ \E m \in Messages, createErr \in BOOLEAN, out \in ProcessorOutcomes,
        updErr \in UpdateOutcomes : Deliver(m, createErr, out, updErr)
  \/ \E err \in BOOLEAN : ConsumeExit(err)
  \/ \E err \in BOOLEAN : SiblingReturn(err)
  \/ RunReturn

SpecConsumer == Init /\ [][NextConsumer]_vars

----------------------------------------------------------------------------
\* The accessors' Get: the selector with LIMIT 1, QueryRowContext and Scan.

Entities ==
  {"organizations", "profiles", "members", "roles", "invites", "permissions",
   "role_permission_links"}

MaxRows == 3
RowIDs == 1..MaxRows

\* Scan of the row of a query that matched nothing gives sql.ErrNoRows.
ErrNoRows(matched) == matched = {}

\* OrganizationsQ.Get returns whatever error the scan gave, wrapped.
OrganizationsQ_Get(matched, row) ==
  IF ErrNoRows(matched) THEN [ret |-> 0, err |-> TRUE]
                        ELSE [ret |-> row, err |-> FALSE]

\* The Get of every other accessor: sql.ErrNoRows becomes the zero value and a
\* nil error.
EntityQ_Get(matched, row) ==
  IF ErrNoRows(matched) THEN [ret |-> 0, err |-> FALSE]
                        ELSE [ret |-> row, err |-> FALSE]

\* A selector may match any rows of its table.
InitGet ==
  /\ roles = {}
  /\ last = NoCall
  /\ txn = <<>>
  /\ ConsumerInit
  /\ permissions = SeedPermissions
  /\ links = {}
  /\ stmt \in {[NoStatement EXCEPT !.entity = e, !.matched = M] :
                 e \in Entities, M \in SUBSET RowIDs}

\* Get of the accessor of stmt.entity; without ORDER BY the row LIMIT 1 keeps
\* is any of the matched ones.
AccessorGet ==
  /\ stmt.op = "none"
  /\ \E row \in IF stmt.matched = {} THEN {0} ELSE stmt.matched :
       LET out == IF stmt.entity = "organizations"
                    THEN OrganizationsQ_Get(stmt.matched, row)
                    ELSE EntityQ_Get(stmt.matched, row)
       IN  stmt' = [stmt EXCEPT !.op = "Get", !.ret = out.ret, !.err = out.err]
  /\ UNCHANGED <<rankVars, consumerVars, permissions, links>>

NextGet == AccessorGet

SpecGet == InitGet /\ [][NextGet]_vars

----------------------------------------------------------------------------
\* The permission dictionary, the links and the triggers that keep the head
\* roles linked to every permission.

\* Largest number of rows of one OrgRolePermissionLinksQ.Insert.
MaxData == 2
LinkRows ==
  {OrganizationRolePermissionLink(r, p) : r \in AllIDs, p \in Permissions}
LinkData == {D \in SUBSET LinkRows : Cardinality(D) <= MaxData}

\* The trigger after an insert into the dictionary: every head role gets a
\* link to the new permission (ON CONFLICT DO NOTHING).
grant_new_permission_to_head_roles(lnk, tbl, permissionID) ==
  lnk \cup {OrganizationRolePermissionLink(r.id, permissionID) :
              r \in {h \in tbl : h.head}}

\* The trigger before the delete of a link: it raises when the role of the
\* link is a head role.
prevent_delete_head_role_permissions(tbl, old) ==
  \E r \in tbl : r.id = old.role_id /\ r.head

\* The foreign keys and the primary key of organization_role_permission_links.
LinkConstraintViolated(lnk, tbl, perms, data) ==
  \/ \E l \in data : l.role_id \notin IDs(tbl)
  \/ \E l \in data : l.permission_id \notin perms
  \/ data \cap lnk # {}

\* FilterByRoleID and FilterByPermissionID; 0 stands for a filter not applied.
LinkFilter(lnk, roleID, permissionID) ==
  {l \in lnk : /\ (roleID # 0 => l.role_id = roleID)
               /\ (permissionID # 0 => l.permission_id = permissionID)}

\* OrgRolePermissionsQ.Insert
PermissionInsert(id) ==
  /\ Idle
  /\ LET call == [NoStatement EXCEPT !.op = "Insert", !.entity = "permissions",
                                     !.data = {id}, !.pre = links]
     IN  IF id \in permissions
           THEN /\ UNCHANGED <<permissions, links>>
                /\ stmt' = [call EXCEPT !.err = TRUE]
           ELSE /\ permissions' = permissions \cup {id}
                /\ links' = grant_new_permission_to_head_roles(links, roles, id)
                /\ stmt' = [call EXCEPT !.ret = id]
  /\ last' = [NoCall EXCEPT !.op = "OrgRolePermissionsQ.Insert", !.pre = roles]
  /\ UNCHANGED <<roles, txn, consumerVars>>

\* OrgRolePermissionLinksQ.Insert
LinkInsert(data) ==
  /\ Idle
  /\ LET call == [NoStatement EXCEPT !.op = "Insert",
                                     !.entity = "role_permission_links",
                                     !.data = data, !.pre = links]
     IN  IF data = {}
           THEN /\ links' = links
                /\ stmt' = call
           ELSE IF LinkConstraintViolated(links, roles, permissions, data)
                  THEN /\ links' = links
                       /\ stmt' = [call EXCEPT !.err = TRUE]
                  ELSE /\ links' = links \cup data
                       /\ stmt' = call
  /\ last' = [NoCall EXCEPT !.op = "OrgRolePermissionLinksQ.Insert", !.pre = roles]
  /\ UNCHANGED <<roles, txn, consumerVars, permissions>>

\* OrgRolePermissionLinksQ.Delete: one DELETE statement; an exception of the
\* trigger on any of its rows aborts the statement.
LinkDelete(roleID, permissionID) ==
  /\ Idle
  /\ LET matched == LinkFilter(links, roleID, permissionID)
         call == [NoStatement EXCEPT !.op = "Delete",
                                     !.entity = "role_permission_links",
                                     !.matched = matched, !.pre = links]
     IN  IF \E old \in matched : prevent_delete_head_role_permissions(roles, old)
           THEN /\ links' = links
                /\ stmt' = [call EXCEPT !.err = TRUE]
           ELSE /\ links' = links \ matched
                /\ stmt' = call
  /\ last' = [NoCall EXCEPT !.op = "OrgRolePermissionLinksQ.Delete", !.pre = roles]
  /\ UNCHANGED <<roles, txn, consumerVars, permissions>>

NextStore ==
  \/ Idle /\ \E o \in Orgs, rank \in Ranks, head \in BOOLEAN :
               InsertInRange(o, rank) /\ Insert(o, rank, head)
  \/ Idle /\ \E id \in Permissions : PermissionInsert(id)
  \/ Idle /\ \E data \in LinkData : LinkInsert(data)
  \/ Idle /\ \E roleID \in AllIDs \cup {0}, permissionID \in Permissions \cup {0} :
               LinkDelete(roleID, permissionID)
  \/ Return

SpecStore == Init /\ [][NextStore]_vars

----------------------------------------------------------------------------
\* ProfilesQ.Upsert applied again with the input it was applied with.

\* How many times the upsert is applied.
MaxUpserts == 2

ProfileUpsertInputs ==
  {ProfileUpsertInput(a, u, o, p) :
     a \in AccountIDs, u \in Usernames, o \in BOOLEAN, p \in Pseudonyms}

\* The tables the constraints allow: at most one row per account, no
\* username in two rows; every row written at time 0.
ProfileTables ==
  LET Slots == {<<>>} \cup ProfileUpsertInputs
      RowsOf(f) == {Profile(f[a].account_id, f[a].username, f[a].official,
                            f[a].pseudonym, 0, 0) : a \in {b \in AccountIDs : f[b] # <<>>}}
      Keyed(f) == \A a \in AccountIDs : f[a] # <<>> => f[a].account_id = a
      Unique(f) == \A a, b \in AccountIDs :
                     (a # b /\ f[a] # <<>> /\ f[b] # <<>>) => f[a].username # f[b].username
  IN  {RowsOf(f) : f \in {g \in [AccountIDs -> Slots] : Keyed(g) /\ Unique(g)}}

InitUpsert ==
  /\ roles = {}
  /\ last = NoCall
  /\ txn = <<>>
  /\ inbox = [k \in Keys |-> "none"]
  /\ profiles \in ProfileTables
  /\ runs = [k \in Keys |-> 0]
  /\ sub = [state |-> "new", err |-> FALSE, n |-> 0, by |-> 0]
  /\ delivery = NoDelivery
  /\ group = [sibling |-> "running", err |-> "nil", returned |-> FALSE]
  /\ permissions = SeedPermissions
  /\ links = {}
  /\ stmt \in {[NoStatement EXCEPT !.entity = "profiles", !.data = d,
                                   !.pre = profiles] : d \in ProfileUpsertInputs}

\* One application of the upsert, at a time later than every earlier one.
ProfilesUpsert ==
  /\ stmt.n < MaxUpserts
  /\ LET out == Upsert(profiles, stmt.data, stmt.n + 1)
     IN  /\ profiles' = out.tbl
         /\ stmt' = [stmt EXCEPT !.op = "Upsert", !.n = @ + 1, !.err = out.err,
                                 !.once = IF stmt.n = 0 THEN out.tbl ELSE @]
  /\ UNCHANGED <<rankVars, inbox, runs, sub, delivery, group, permissions, links>>

NextUpsert == ProfilesUpsert

SpecUpsert == InitUpsert /\ [][NextUpsert]_vars

----------------------------------------------------------------------------
\* Properties of the calls.  In a state where a call has just run, last holds
\* its arguments and the table before it (last.pre); roles is the table after.

Ran(op) == last.op = op
PreRows == OrgRows(last.pre, last.org)
PostRows == OrgRows(roles, last.org)
PreCount == Cardinality(PreRows)
PreDense == Dense(last.pre, last.org)

\* The row with this id after the call has this rank.
PostRank(id, rank) == \E q \in roles : q.id = id /\ q.rank = rank

\* C1: after any sequence of Insert, UpdateRoleRank, DeleteAndShiftRanks and
\* UpdateRolesRanks calls with arbitrary arguments, the ranks of every
\* organization are exactly 0..n-1.
C1_PermutationInvariant == \A o \in Orgs : Dense(roles, o)

\* C2: Insert at rank r, 0 <= r <= n, into a dense organization of n roles gives
\* n+1 roles: the new role at rank r, every role that had rank >= r one higher,
\* every role that had rank < r where it was.
C2_InsertShiftsUp ==
  (Ran("Insert") /\ ~last.err /\ PreDense /\ last.rank <= PreCount) =>
    /\ Cardinality(PostRows) = PreCount + 1
    /\ last.id \notin IDs(PreRows)
    /\ PostRank(last.id, last.rank)
    /\ \A p \in PreRows :
         PostRank(p.id, IF p.rank >= last.rank THEN p.rank + 1 ELSE p.rank)

C2_Witness ==
  /\ Ran("Insert") /\ ~last.err /\ PreDense
  /\ PreCount >= 2 /\ last.rank > 0 /\ last.rank < PreCount

\* C3: Insert with a rank outside [0, n] fails and writes nothing.
C3_InsertOutOfRangeRejected ==
  (Ran("Insert") /\ last.rank > PreCount) => (last.err /\ roles = last.pre)

\* C4: UpdateRoleRank to a different rank in [0, n-1] of a dense organization is
\* a rotation: the moved role ends at newRank; moving down in rank, the roles
\* in [newRank, old-1] go up by one; moving up, the roles in [old+1, newRank] go
\* down by one; every other role keeps its rank.
C4_MoveIsRotation ==
  (Ran("UpdateRoleRank") /\ ~last.err /\ PreDense /\ last.rank < PreCount
     /\ RankOf(last.pre, last.id) # last.rank) =>
    LET old == RankOf(last.pre, last.id)
        new == last.rank
    IN  /\ IDs(PostRows) = IDs(PreRows)
        /\ PostRank(last.id, new)
        /\ \A p \in PreRows :
             p.id # last.id =>
               PostRank(p.id,
                        IF new < old /\ p.rank >= new /\ p.rank <= old - 1
                          THEN p.rank + 1
                        ELSE IF new > old /\ p.rank >= old + 1 /\ p.rank <= new
                          THEN p.rank - 1
                        ELSE p.rank)

C4_Witness ==
  /\ Ran("UpdateRoleRank") /\ ~last.err /\ PreDense
  /\ PreCount >= 3
  /\ last.rank < RankOf(last.pre, last.id)
  /\ \E p \in PreRows : p.rank > RankOf(last.pre, last.id)

\* C5: UpdateRoleRank to the rank the role already has returns the role as it
\* was and writes no row.
C5_MoveToSameRankNoWrite ==
  (Ran("UpdateRoleRank") /\ ~last.err /\ RankOf(last.pre, last.id) = last.rank) =>
    /\ roles = last.pre
    /\ last.written = {}
    /\ Len(last.ret) = 1
    /\ last.ret[1] \in last.pre
    /\ last.ret[1].id = last.id

C5_Witness ==
  /\ Ran("UpdateRoleRank") /\ ~last.err /\ PreCount >= 2
  /\ RankOf(last.pre, last.id) = last.rank

\* C6: UpdateRoleRank with a rank outside [0, n-1] is rejected before any write.
C6_MoveOutOfRangeRejected ==
  (Ran("UpdateRoleRank") /\ RowsByID(last.pre, last.id) # {}
     /\ last.rank >= Cardinality(OrgRows(last.pre, (CHOOSE r \in last.pre : r.id = last.id).org))) =>
    (last.err /\ roles = last.pre)

\* The organization [A@0, B@1, C@2, D@3], with A = 1, B = 2, C = 3, D = 4.
ExampleRoles == {OrganizationRole(i, 1, i = 1, i - 1) : i \in 1..4}
ExampleRanks(tbl) == [i \in IDs(tbl) |-> RankOf(tbl, i)]

\* C7: DeleteAndShiftRanks of an existing non-head role of rank d removes that
\* role only, lowers by one every role of its organization with rank > d and
\* leaves the roles with rank < d, and every other organization, as they were.
C7_DeleteShiftsDown ==
  (Ran("DeleteAndShiftRanks")
     /\ \E d \in last.pre : d.id = last.id /\ ~d.head) =>
    LET d == CHOOSE r \in last.pre : r.id = last.id
        org == OrgRows(last.pre, d.org)
    IN  /\ ~last.err
        /\ IDs(roles) = IDs(last.pre) \ {last.id}
        /\ \A p \in org \ {d} :
             PostRank(p.id, IF p.rank > d.rank THEN p.rank - 1 ELSE p.rank)
        /\ last.pre \ org \subseteq roles
        /\ ExampleRanks(sqlq(ExampleRoles, 3)) = (1 :> 0) @@ (2 :> 1) @@ (4 :> 2)

C7_Witness ==
  /\ Ran("DeleteAndShiftRanks") /\ ~last.err
  /\ \E d \in last.pre :
       /\ d.id = last.id /\ ~d.head
       /\ Dense(last.pre, d.org)
       /\ \E a, b \in OrgRows(last.pre, d.org) : a.rank < d.rank /\ d.rank < b.rank
       /\ Dense(roles, d.org)

\* C8: a valid UpdateRolesRanks on a dense organization leaves every assigned
\* role at the rank asked for and the other roles on the remaining ranks, in
\* the order they had before.
C8_BulkReorderStableFill ==
  (Ran("UpdateRolesRanks") /\ ~last.err /\ PreDense) =>
    /\ IDs(PostRows) = IDs(PreRows)
    /\ Dense(roles, last.org)
    /\ \A id \in DOMAIN last.order : PostRank(id, last.order[id])
    /\ \A a, b \in PreRows :
         (a.id \notin DOMAIN last.order /\ b.id \notin DOMAIN last.order
            /\ a.rank < b.rank) =>
           RankOf(roles, a.id) < RankOf(roles, b.id)
    /\ LET seq == OrderByRoleRank(ExampleRoles)
           target == Target(seq, (4 :> 0))
           changed == Changed(seq, target)
       IN  ExampleRanks(sqlUpdate(ExampleRoles, changed, NewRanks(target, changed), 1))
             = (4 :> 0) @@ (1 :> 1) @@ (2 :> 2) @@ (3 :> 3)

\* Two roles left out of the assignment, and the assigned role jumps over both.
C8_Witness ==
  /\ Ran("UpdateRolesRanks") /\ ~last.err /\ PreDense
  /\ \E id \in DOMAIN last.order :
       /\ DOMAIN last.order = {id}
       /\ last.order[id] = 0
       /\ RankOf(last.pre, id) = PreCount - 1
  /\ PreCount >= 3

\* C9: UpdateRolesRanks with a rank outside [0, n-1], two roles on the same
\* rank, or a role that is not of the organization returns an error and leaves
\* every rank as it was.
C9_BulkInvalidWritesNothing ==
  (Ran("UpdateRolesRanks")
     /\ \/ \E id \in DOMAIN last.order : last.order[id] > PreCount - 1
        \/ \E a, b \in DOMAIN last.order : a # b /\ last.order[a] = last.order[b]
        \/ \E id \in DOMAIN last.order : id \notin IDs(PreRows)) =>
    /\ last.err
    /\ roles = last.pre
    /\ last.written = {}

\* Ranks in range and distinct, one role of another organization.
C9_Witness ==
  /\ Ran("UpdateRolesRanks") /\ last.err /\ PreCount >= 2
  /\ \A id \in DOMAIN last.order : last.order[id] < PreCount
  /\ \A a, b \in DOMAIN last.order : a # b => last.order[a] # last.order[b]
  /\ \E id \in DOMAIN last.order : id \in IDs(last.pre) \ IDs(PreRows)

\* C10: when two calls that read before they write (two UpdateRolesRanks, or
\* UpdateRolesRanks and UpdateRoleRank) run concurrently on one organization,
\* with their statements interleaved in any order, the organization's ranks
\* are exactly 0..n-1 after both have finished.
BothFinished == \A p \in Procs : txn[p].pc = "done"

ReorderAndReadWrite ==
  /\ \E p \in Procs : txn[p].op = "UpdateRolesRanks"
  /\ \A p \in Procs : txn[p].op \in {"UpdateRolesRanks", "UpdateRoleRank"}
  /\ \A p, q \in Procs : txn[p].org = txn[q].org

C10_ConcurrentReordersStayDense ==
  (DOMAIN txn = Procs /\ BothFinished /\ ReorderAndReadWrite) =>
    \A o \in Orgs : Dense(roles, o)


\* C11: UpdateRoleRank takes effect as one atomic update: with an Insert, a
\* DeleteAndShiftRanks or another UpdateRoleRank of a second caller on the same
\* organization interleaved between its read of the old rank and its update
\* statement, every organization's ranks stay exactly 0..n-1 (no duplicate
\* and no missing rank).
C11_MoveInterleavedStaysDense ==
  (DOMAIN txn = Procs /\ \E p \in Procs : txn[p].op = "UpdateRoleRank") =>
    \A o \in Orgs : Dense(roles, o)

\* C12: Insert and DeleteAndShiftRanks each change the table in one step: what
\* a concurrent reader selects is the table before or after a whole statement,
\* so the ranks it sees for an organization are exactly 0..n-1, never a shift
\* without its insert or delete.
C12_ReaderSeesWholeStatements ==
  Ran("Select") =>
    Dense(SeqRange(last.ret), last.org)

C12_Witness ==
  /\ Ran("Select")
  /\ DOMAIN txn = Procs
  /\ Len(last.ret) >= 2
  /\ \E p, q \in Procs :
       /\ txn[p].pc = "done" /\ ~txn[p].err
       /\ txn[p].op \in {"Insert", "DeleteAndShiftRanks"}
       /\ txn[q].pc = "idle"
       /\ \E r \in SeqRange(last.ret) : r \notin DenseTable(MaxRoles)

\* C20: DeleteAndShiftRanks on a head role fails with an error and leaves the
\* table unchanged: the head role still exists and no other role has its rank
\* shifted.
C20_DeleteHeadRejected ==
  (Ran("DeleteAndShiftRanks") /\ \E d \in last.pre : d.id = last.id /\ d.head) =>
    /\ last.err
    /\ roles = last.pre
    /\ last.written = {}

C20_Witness ==
  /\ Ran("DeleteAndShiftRanks") /\ last.err
  /\ \E d \in roles :
       /\ d.id = last.id /\ d.head
       /\ \E r \in OrgRows(roles, d.org) : r.rank > d.rank

----------------------------------------------------------------------------
\* Properties of the profiles consumer.  After a delivery, delivery holds the
\* message key, what the handler did, and the tables as they were before.

Handled == delivery.key # 0 /\ delivery.ok
Unhandled == {m.key : m \in {x \in Messages : ~x.typed \/ x.event_type # ProfileUpdatedEvent}}
MessageOf(key) == CHOOSE m \in Messages : m.key = key

\* C13: inbox idempotency: when the same message is delivered to
\* ProfileUpdated more than once, every recording resolves to the one inbox
\* event of the message and the processor's effect is executed (and
\* committed) only once.
C13_ProcessorRunsOncePerMessage ==
  \A k \in Keys : runs[k] <= 1

\* C14: in every state ProfileUpdated has committed, a message whose
\* processor effect is visible has an inbox event with a terminal status;
\* a failed UpdateInboxEventStatus does not leave the effect committed with
\* the inbox event pending.
C14_EffectImpliesTerminal ==
  (Handled /\ delivery.wrote /\ ~delivery.err) => inbox[delivery.key] \in Terminal

\* C15: atomic pairing: when the processor reports failure, after the
\* handler's transaction the inbox event's status is failed and the profiles
\* table equals its state before the event.
C15_FailureLeavesReplicaUnchanged ==
  (Handled /\ delivery.ran /\ delivery.status = "failed" /\ delivery.updErr = "none") =>
    /\ inbox[delivery.key] = "failed"
    /\ profiles = delivery.profiles

\* C16: an inbox event whose status is processed or failed keeps that status
\* over every later delivery of the message.
C16_TerminalStatusIsFinal ==
  delivery.key # 0 =>
    \A k \in Keys : delivery.inbox[k] \in Terminal => inbox[k] = delivery.inbox[k]

\* C17: for a message whose event_type header is missing or names an event
\* type the profiles consumer does not know, the resolver returns no handler:
\* no inbox event is recorded, the processor is not invoked, the replica is
\* unchanged and the loop does not stop because of the message.
C17_UnknownEventSkipped ==
  delivery.key \in Unhandled =>
    /\ ~Resolve(MessageOf(delivery.key)).ok
    /\ ~delivery.ok /\ ~delivery.ran /\ ~delivery.err
    /\ inbox = delivery.inbox
    /\ inbox[delivery.key] = "none"
    /\ profiles = delivery.profiles
    /\ runs = delivery.runs
    /\ sub.by # delivery.key

C17_Witness ==
  /\ delivery.key \in Unhandled
  /\ sub.state = "running"
  /\ \E k \in Keys : delivery.inbox[k] = "processed"

\* C18: a processing failure is isolated per message: when the processor
\* returns the failed status (and the inbox takes the status update),
\* ProfileUpdated records that status and returns no error, the loop is not
\* stopped by the message, and the message after it is handled as usual.
C18_FailureIsolated ==
  /\ (Handled /\ delivery.ran /\ delivery.status = "failed" /\ delivery.updErr = "none") =>
       /\ inbox[delivery.key] = "failed"
       /\ ~delivery.err
       /\ sub.by # delivery.key
  /\ (Handled /\ delivery.afterFailed /\ delivery.ran /\ delivery.status = "processed"
        /\ delivery.updErr = "none") =>
       /\ inbox[delivery.key] = "processed"
       /\ UsernameOf(profiles, MessageOf(delivery.key).account)
            = MessageOf(delivery.key).username
       /\ ~delivery.err

C18_Witness ==
  /\ Handled /\ delivery.afterFailed /\ delivery.ran /\ delivery.status = "processed"
  /\ delivery.updErr = "none"
  /\ sub.state = "running"
  /\ \E k \in Keys \ {delivery.key} : inbox[k] = "failed"

\* C19: when the profiles subscription loop exits with an error, the task
\* function returns that error to the errgroup, whose Wait reports it (the
\* group keeps the first error of its tasks, and keeps it); the step does not
\* stop another task of the group; and Profile.Run returns only after the
\* subscription loop has exited.
C19_LoopErrorReported ==
  [][/\ (sub.state = "running" /\ sub'.state = "stopped") =>
          /\ sub'.err => /\ group'.err # "nil"
                         /\ group.err = "nil" => group'.err = "profiles"
          /\ group'.sibling = group.sibling
          /\ ~group'.returned
     /\ group.err # "nil" => group'.err = group.err
     /\ (~group.returned /\ group'.returned) => sub.state = "stopped"
    ]_vars

C19_Witness ==
  /\ sub.state = "stopped" /\ sub.err
  /\ group.err = "profiles"
  /\ group.sibling = "running"
  /\ ~group.returned

\* C22: each organization has at most one role with head = true: an Insert
\* of a head role into an organization that already has one fails, and the
\* failed Insert leaves the ranks of the organization's roles unshifted.
C22_OneHeadPerOrganization ==
  /\ \A o \in Orgs : Cardinality({r \in OrgRows(roles, o) : r.head}) <= 1
  /\ (Ran("Insert") /\ last.head /\ \E r \in PreRows : r.head) =>
       /\ last.err
       /\ roles = last.pre
       /\ last.written = {}

C22_Witness ==
  /\ Ran("Insert") /\ last.head /\ last.err
  /\ \E r \in PreRows : r.head
  /\ \E r \in PreRows : r.rank >= last.rank

\* C23: UpdateRolesRanks on an organization that has no roles returns an
\* error, for every assignment and for the empty one, and writes nothing.
C23_BulkOnEmptyOrganizationRejected ==
  (Ran("UpdateRolesRanks") /\ PreRows = {}) =>
    /\ last.err
    /\ roles = last.pre
    /\ last.written = {}
    /\ last.ret = <<>>

C23_Witness ==
  /\ Ran("UpdateRolesRanks") /\ PreRows = {} /\ last.err
  /\ DOMAIN last.order = {}
  /\ roles # {}

\* C24: an UpdateRolesRanks whose target permutation equals the current order
\* (the empty assignment, or roles assigned to the ranks they have) returns
\* the organization's full role list in rank order and writes nothing.
SameOrder(rolesSeq, target) ==
  \A i \in DOMAIN target : target[i] = rolesSeq[i + 1].id

C24_BulkNoChangeNoWrite ==
  (Ran("UpdateRolesRanks") /\ ~last.err
     /\ SameOrder(OrderByRoleRank(PreRows), Target(OrderByRoleRank(PreRows), last.order))) =>
    /\ last.ret = OrderByRoleRank(PreRows)
    /\ roles = last.pre
    /\ last.written = {}

C24_Witness ==
  /\ Ran("UpdateRolesRanks") /\ ~last.err
  /\ PreCount >= 2
  /\ DOMAIN last.order = IDs(PreRows)
  /\ \A r \in PreRows : last.order[r.id] = r.rank
  /\ Len(last.ret) = PreCount

\* C26: not-found at a delete site is an error: DeleteAndShiftRanks with a
\* role identity that matches no role returns an error and changes no role.
C26_DeleteMissingRoleRejected ==
  (Ran("DeleteAndShiftRanks") /\ RowsByID(last.pre, last.id) = {}) =>
    /\ last.err
    /\ roles = last.pre

\* C30: rank operations are confined to one organization: an Insert, an
\* UpdateRoleRank, a DeleteAndShiftRanks or an UpdateRolesRanks, with any
\* arguments and whether it succeeds or fails, leaves the roles of every
\* organization other than the one it acts on as they were.
ActsOn ==
  IF last.op \in {"DeleteAndShiftRanks", "UpdateRoleRank"}
    THEN {r.org : r \in RowsByID(last.pre, last.id)}
    ELSE {last.org}

C30_OtherOrganizationsUntouched ==
  ~Idle =>
    \A o \in Orgs \ ActsOn :
      /\ OrgRows(roles, o) = OrgRows(last.pre, o)
      /\ last.written \cap IDs(OrgRows(last.pre, o)) = {}

C30_Witness ==
  /\ Ran("Insert") /\ ~last.err
  /\ \E r \in PreRows : r.rank >= last.rank
  /\ \E o \in Orgs \ {last.org} : \E r \in OrgRows(roles, o) : r.rank >= last.rank

\* C28: a successful UpdateRolesRanks on a densely ranked organization writes
\* only the roles whose target rank differs from their current rank: a role
\* whose target rank equals its rank is not updated and is not among the
\* returned roles, and a role whose rank differs is updated to its target rank
\* and returned.
TargetRank(id) ==
  LET target == Target(OrderByRoleRank(PreRows), last.order)
  IN  CHOOSE i \in DOMAIN target : target[i] = id

WritesOnlyChanged ==
  \A r \in PreRows :
    IF TargetRank(r.id) = r.rank
      THEN /\ r \in roles
           /\ r.id \notin last.written
           /\ r.id \notin IDs(SeqRange(last.ret))
      ELSE /\ PostRank(r.id, TargetRank(r.id))
           /\ r.id \in last.written
           /\ \E q \in SeqRange(last.ret) : q.id = r.id /\ q.rank = TargetRank(r.id)

C28_BulkWritesOnlyChanged ==
  (Ran("UpdateRolesRanks") /\ ~last.err /\ PreDense) => WritesOnlyChanged

\* C28, as the code has it: the same, for a call in which the rank of at
\* least one role differs from its target rank (with none, the full list is
\* returned, as in C24).
C28_BulkWritesOnlyChangedWhenAny ==
  (Ran("UpdateRolesRanks") /\ ~last.err /\ PreDense
     /\ \E r \in PreRows : TargetRank(r.id) # r.rank) => WritesOnlyChanged

C28_Witness ==
  /\ Ran("UpdateRolesRanks") /\ ~last.err /\ PreDense
  /\ \E r \in PreRows : TargetRank(r.id) # r.rank
  /\ \E r \in PreRows : TargetRank(r.id) = r.rank

\* C25: Get of every entity accessor, with a selector that matches no row,
\* returns the zero-value entity and a nil error.
C25_NotFoundIsEmptyResult ==
  (stmt.op = "Get" /\ stmt.matched = {}) => (stmt.ret = 0 /\ ~stmt.err)

HeadRoles == {r \in roles : r.head}

\* C21: in every state of the store, every head role is linked to every
\* permission of the dictionary, whatever role inserts, permission inserts,
\* link inserts and link deletes have run; a delete that matches a link of a
\* head role is rejected and deletes nothing.
C21_HeadRoleHasEveryPermission ==
  /\ \A r \in HeadRoles, p \in permissions :
        OrganizationRolePermissionLink(r.id, p) \in links
  /\ (stmt.op = "Delete" /\ \E l \in stmt.matched, r \in HeadRoles : l.role_id = r.id)
       => (stmt.err /\ links = stmt.pre)

\* A head role and a role that is not one, both permissions in the
\* dictionary, and a delete that matched a link of the head role.
C21_Witness ==
  /\ HeadRoles # {} /\ roles \ HeadRoles # {}
  /\ permissions = Permissions
  /\ stmt.op = "Delete" /\ stmt.err
  /\ \E l \in stmt.matched, r \in HeadRoles : l.role_id = r.id

\* C27: when CreateInboxEvent fails inside ProfileUpdated, the processor is
\* not invoked and no status update is attempted, the handler returns the
\* error to the loop (which stops on it), and the rollback leaves the inbox,
\* the profiles and the processor's count as they were before the delivery.
\* When every step succeeds the event has been recorded, the processor has
\* run once on it and its status is the one the processor returned.
C27_CreateFailureRollsBack ==
  /\ (delivery.ok /\ delivery.createErr) =>
       /\ ~delivery.ran /\ delivery.status = "" /\ delivery.updErr = "none"
       /\ ~delivery.wrote
       /\ delivery.err
       /\ sub.state = "stopped" /\ sub.err /\ sub.by = delivery.key
       /\ inbox = delivery.inbox
       /\ profiles = delivery.profiles
       /\ runs = delivery.runs
  /\ (delivery.ok /\ ~delivery.createErr /\ delivery.updErr = "none") =>
       /\ delivery.ran /\ ~delivery.err
       /\ runs[delivery.key] = delivery.runs[delivery.key] + 1
       /\ inbox[delivery.key] = delivery.status
       /\ delivery.status \in Terminal

\* CreateInboxEvent fails for the second message of an account whose first
\* message was processed: there is an inbox event and a profile to keep.
C27_Witness ==
  /\ delivery.ok /\ delivery.createErr
  /\ \E k \in Keys \ {delivery.key} : delivery.inbox[k] = "processed"
  /\ \E a \in Accounts : UsernameOf(delivery.profiles, a) # 0
  /\ inbox[delivery.key] = "none"

\* A profiles table without its updated_at column.
IgnoringUpdatedAt(tbl) == {[r EXCEPT !.updated_at = 0] : r \in tbl}

\* The account's rows carry the values of the input.
CarriesInput(tbl, data) ==
  /\ Cardinality(ProfilesByAccountID(tbl, data.account_id)) = 1
  /\ \A r \in ProfilesByAccountID(tbl, data.account_id) :
        /\ r.username = data.username
        /\ r.official = data.official
        /\ r.pseudonym = data.pseudonym

UpsertedAgain == stmt.op = "Upsert" /\ stmt.n >= 2

\* C29: the profile upsert applied twice with one input leaves the profiles
\* table, updated_at aside, as applying it once does: exactly one row for the
\* account, carrying the given values, whether or not the account had a row.
C29_UpsertTwiceIsOnce ==
  UpsertedAgain =>
    /\ IgnoringUpdatedAt(profiles) = IgnoringUpdatedAt(stmt.once)
    /\ CarriesInput(profiles, stmt.data)

\* C29 as it holds: the table after the second application is, updated_at
\* aside, the table after the first.  When no other account holds the
\* username the upsert succeeds and the account has exactly one row, carrying
\* the given values, the other rows as they were; when another account holds
\* it the upsert fails each time and the table stays as it was.
C29_UpsertTwiceIsOnceUnlessUsernameTaken ==
  UpsertedAgain =>
    /\ IgnoringUpdatedAt(profiles) = IgnoringUpdatedAt(stmt.once)
    /\ stmt.err <=> UsernameTaken(stmt.pre, stmt.data)
    /\ ~UsernameTaken(stmt.pre, stmt.data) =>
         /\ CarriesInput(profiles, stmt.data)
         /\ profiles \ ProfilesByAccountID(profiles, stmt.data.account_id)
              = stmt.pre \ ProfilesByAccountID(stmt.pre, stmt.data.account_id)
    /\ UsernameTaken(stmt.pre, stmt.data) => profiles = stmt.pre

\* The upsert applied twice for an account that had a row with other values,
\* next to the row of another account.
C29_Witness ==
  /\ UpsertedAgain /\ ~stmt.err
  /\ \E r \in ProfilesByAccountID(stmt.pre, stmt.data.account_id) :
        r.username # stmt.data.username /\ r.official # stmt.data.official
  /\ stmt.pre \ ProfilesByAccountID(stmt.pre, stmt.data.account_id) # {}
  /\ \E r \in profiles : r.updated_at = 2 /\ r.created_at = 0

============================================================================
